---- MODULE Spec2Model ----
(***************************************************************************)
(* Model of the TOS MCP server: the ObjectResource operations of           *)
(* resources/object.py (directive construction, the streaming fetch with   *)
(* its size check and stream close) and the credential resolver of         *)
(* server.py.                                                              *)
(*                                                                         *)
(* Data representation.  A Python bytes value is a sequence of integers    *)
(* 0..255.  A Python str that the code encodes, decodes or inspects        *)
(* character by character is a sequence of Unicode code points; a str that *)
(* the code only concatenates into a directive is a TLA+ string.  An       *)
(* Optional[T] is the empty tuple (None) or a one-element tuple.           *)
(***************************************************************************)
EXTENDS Integers, Sequences, FiniteSets, TLC

\* ---------------------------------------------------------------- bounds
\* Longest response body the modelled server sends, in bytes.
MaxBodyLen == 3
\* TosConfig.max_object_size, scaled down with the bodies.
max_object_size == 2
\* chunk_size of aiter_bytes (69 * 1024 in the code), scaled down likewise.
chunk_size == 2

\* ------------------------------------------------------------- optionals
None == <<>>
Some(v) == <<v>>
\* Python truthiness of an Optional[str]: None and "" are falsy.
TruthyCp(o) == o # None /\ Len(o[1]) > 0
TruthyStr(o) == o # None /\ o[1] # ""

\* ------------------------------------------------------------ characters
\* Printable ASCII, code points 32..126, as one-character strings.  A TLA+
\* string cannot hold the backtick (96), which stands as "?"; it is in neither
\* base64 alphabet, the only text rendered through this table.
AsciiTable ==
    << " ", "!", "\"", "#", "$", "%", "&", "'", "(", ")", "*", "+", ",", "-", ".", "/",
       "0", "1", "2", "3", "4", "5", "6", "7", "8", "9", ":", ";", "<", "=", ">", "?",
       "@", "A", "B", "C", "D", "E", "F", "G", "H", "I", "J", "K", "L", "M", "N", "O",
       "P", "Q", "R", "S", "T", "U", "V", "W", "X", "Y", "Z", "[", "\\", "]", "^", "_",
       "?", "a", "b", "c", "d", "e", "f", "g", "h", "i", "j", "k", "l", "m", "n", "o",
       "p", "q", "r", "s", "t", "u", "v", "w", "x", "y", "z", "{", "|", "}", "~" >>

\* bytes.decode('ascii') of a base64 output, rendered as a TLA+ string.
RECURSIVE AsciiStr(_)
AsciiStr(cps) ==
    IF cps = <<>> THEN "" ELSE AsciiTable[Head(cps) - 31] \o AsciiStr(Tail(cps))

\* str.lower() on the ASCII range.
LowerCp(c) == IF c >= 65 /\ c <= 90 THEN c + 32 ELSE c
Lower(s) == [i \in 1..Len(s) |-> LowerCp(s[i])]

\* str.endswith
EndsWith(s, suffix) ==
    /\ Len(suffix) <= Len(s)
    /\ SubSeq(s, Len(s) - Len(suffix) + 1, Len(s)) = suffix

\* ----------------------------------------------------------------- UTF-8
IsCont(b) == b >= 128 /\ b <= 191

\* str.encode('utf-8') of one code point.
Utf8EncodeCp(c) ==
    IF c < 128 THEN <<c>>
    ELSE IF c < 2048 THEN <<192 + (c \div 64), 128 + (c % 64)>>
    ELSE IF c < 65536 THEN
        <<224 + (c \div 4096), 128 + ((c \div 64) % 64), 128 + (c % 64)>>
    ELSE <<240 + (c \div 262144), 128 + ((c \div 4096) % 64),
           128 + ((c \div 64) % 64), 128 + (c % 64)>>

RECURSIVE Utf8Encode(_)
Utf8Encode(s) ==
    IF s = <<>> THEN <<>> ELSE Utf8EncodeCp(Head(s)) \o Utf8Encode(Tail(s))

\* Length of the well-formed UTF-8 sequence at the head of b, 0 if there is none.
Utf8SeqLen(b) ==
    LET b1 == b[1]
        n == Len(b)
    IN  IF b1 < 128 THEN 1
        ELSE IF b1 >= 194 /\ b1 <= 223 THEN
            IF n >= 2 /\ IsCont(b[2]) THEN 2 ELSE 0
        ELSE IF b1 >= 224 /\ b1 <= 239 THEN
            IF /\ n >= 3
               /\ IsCont(b[2])
               /\ IsCont(b[3])
               /\ (b1 = 224 => b[2] >= 160)
               /\ (b1 = 237 => b[2] <= 159)
            THEN 3 ELSE 0
        ELSE IF b1 >= 240 /\ b1 <= 244 THEN
            IF /\ n >= 4
               /\ IsCont(b[2])
               /\ IsCont(b[3])
               /\ IsCont(b[4])
               /\ (b1 = 240 => b[2] >= 144)
               /\ (b1 = 244 => b[2] <= 143)
            THEN 4 ELSE 0
        ELSE 0

Utf8Cp(b, k) ==
    IF k = 1 THEN b[1]
    ELSE IF k = 2 THEN (b[1] - 192) * 64 + (b[2] - 128)
    ELSE IF k = 3 THEN (b[1] - 224) * 4096 + (b[2] - 128) * 64 + (b[3] - 128)
    ELSE (b[1] - 240) * 262144 + (b[2] - 128) * 4096 + (b[3] - 128) * 64 + (b[4] - 128)

\* bytes.decode('utf-8') (strict): [ok |-> TRUE, text |-> the str], or ok = FALSE
\* where Python raises UnicodeDecodeError.
RECURSIVE Utf8Decode(_)
Utf8Decode(b) ==
    IF b = <<>> THEN [ok |-> TRUE, text |-> <<>>]
    ELSE LET k == Utf8SeqLen(b)
         IN  IF k = 0 THEN [ok |-> FALSE, text |-> <<>>]
             ELSE LET rest == Utf8Decode(SubSeq(b, k + 1, Len(b)))
                  IN  [ok |-> rest.ok,
                       text |-> IF rest.ok THEN <<Utf8Cp(b, k)>> \o rest.text ELSE <<>>]

\* ---------------------------------------------------------------- base64
\* The character of a 6-bit value: A-Z a-z 0-9, then the two characters that
\* differ between the standard alphabet (+ /) and the URL-safe one (- _).
B64Char(i, urlsafe) ==
    IF i < 26 THEN 65 + i
    ELSE IF i < 52 THEN 97 + (i - 26)
    ELSE IF i < 62 THEN 48 + (i - 52)
    ELSE IF i = 62 THEN (IF urlsafe THEN 45 ELSE 43)
    ELSE (IF urlsafe THEN 95 ELSE 47)

RECURSIVE B64Digits(_, _)
B64Digits(b, urlsafe) ==
    IF b = <<>> THEN <<>>
    ELSE IF Len(b) = 1 THEN
        << B64Char(b[1] \div 4, urlsafe), B64Char((b[1] % 4) * 16, urlsafe), 61, 61 >>
    ELSE IF Len(b) = 2 THEN
        << B64Char(b[1] \div 4, urlsafe),
           B64Char((b[1] % 4) * 16 + (b[2] \div 16), urlsafe),
           B64Char((b[2] % 16) * 4, urlsafe), 61 >>
    ELSE << B64Char(b[1] \div 4, urlsafe),
            B64Char((b[1] % 4) * 16 + (b[2] \div 16), urlsafe),
            B64Char((b[2] % 16) * 4 + (b[3] \div 64), urlsafe),
            B64Char(b[3] % 64, urlsafe) >>
         \o B64Digits(SubSeq(b, 4, Len(b)), urlsafe)

\* base64.b64encode(b), as the code points of its ASCII output.
b64encode(b) == B64Digits(b, FALSE)
\* base64.urlsafe_b64encode(b)
urlsafe_b64encode(b) == B64Digits(b, TRUE)

\* str.rstrip('=')
RECURSIVE RStripEq(_)
RStripEq(s) ==
    IF s # <<>> /\ s[Len(s)] = 61 THEN RStripEq(SubSeq(s, 1, Len(s) - 1)) ELSE s

\* ------------------------------------------------------- values and dicts
\* A value interpolated into a directive: an int, a str that is only
\* concatenated, or a str given as code points.
IntV(n) == [int |-> n]
StrV(s) == [str |-> s]
CpV(s) == [cp |-> s]
IsInt(v) == "int" \in DOMAIN v
IsStr(v) == "str" \in DOMAIN v

\* f"{v}"
Format(v) ==
    IF IsInt(v) THEN ToString(v.int)
    ELSE IF IsStr(v) THEN v.str
    ELSE AsciiStr(v.cp)

\* Python truthiness of a value: 0 and the empty str are falsy.
Truthy(v) ==
    IF IsInt(v) THEN v.int # 0
    ELSE IF IsStr(v) THEN v.str # ""
    ELSE Len(v.cp) > 0

\* A dict built by assignments is the sequence of its <<key, value>> items in
\* insertion order, which is the order items() iterates in.
DictSet(d, k, v) ==
    IF \E i \in 1..Len(d) : d[i][1] = k
    THEN [i \in 1..Len(d) |-> IF d[i][1] = k THEN <<k, v>> ELSE d[i]]
    ELSE Append(d, <<k, v>>)

\* d[k] = f(o[1]) when the Optional o is not None
SetIfNotNone(d, k, o, v) == IF o # None THEN DictSet(d, k, v) ELSE d

\* "".join(f",{k}_{v}" for k, v in params.items())
RECURSIVE JoinItems(_)
JoinItems(items) ==
    IF items = <<>> THEN ""
    ELSE "," \o items[1][1] \o "_" \o Format(items[1][2]) \o JoinItems(Tail(items))

\* sep.join(parts)
RECURSIVE Join(_, _)
Join(sep, parts) ==
    IF parts = <<>> THEN ""
    ELSE IF Len(parts) = 1 THEN parts[1]
    ELSE parts[1] \o sep \o Join(sep, Tail(parts))

\* config.get(k) of a watermark config (a function from its keys to values)
CfgGet(config, k) == IF k \in DOMAIN config THEN Some(config[k]) ELSE None

\* ------------------------------------------------------------ the query
NoParams == <<>>
ProcessQuery(directive) == ("x-tos-process" :> directive)

\* WithSaveAs, but with the URL-safe alphabet and the padding stripped, as the
\* directive elements are encoded.
WithSaveAsUrlSafe(query, a) ==
    LET q1 == IF TruthyCp(a.saveas_object)
              THEN query @@ ("x-tos-save-object" :>
                             AsciiStr(RStripEq(urlsafe_b64encode(
                                 Utf8Encode(a.saveas_object[1])))))
              ELSE query
    IN  IF TruthyCp(a.saveas_bucket)
        THEN q1 @@ ("x-tos-save-bucket" :>
                    AsciiStr(RStripEq(urlsafe_b64encode(Utf8Encode(a.saveas_bucket[1])))))
        ELSE q1

\* if saveas_object: query["x-tos-save-object"] = b64encode(...).decode('ascii')
\* if saveas_bucket: query["x-tos-save-bucket"] = b64encode(...).decode('ascii')
WithSaveAs(query, a) ==
    LET q1 == IF TruthyCp(a.saveas_object)
              THEN query @@ ("x-tos-save-object" :>
                             AsciiStr(b64encode(Utf8Encode(a.saveas_object[1]))))
              ELSE query
    IN  IF TruthyCp(a.saveas_bucket)
        THEN q1 @@ ("x-tos-save-bucket" :>
                    AsciiStr(b64encode(Utf8Encode(a.saveas_bucket[1]))))
        ELSE q1

\* ------------------------------------------------------------ directives
\* video_snapshot_params, but testing time, width and height for truth, which
\* drops a value of 0.
video_snapshot_params_truthy(a) ==
    LET p1 == IF a.time # None /\ a.time[1] # 0
              THEN DictSet(<<>>, "t", IntV(a.time[1])) ELSE <<>>
        p2 == IF a.width # None /\ a.width[1] # 0
              THEN DictSet(p1, "w", IntV(a.width[1])) ELSE p1
        p3 == IF a.height # None /\ a.height[1] # 0
              THEN DictSet(p2, "h", IntV(a.height[1])) ELSE p2
        p4 == SetIfNotNone(p3, "m", a.mode, StrV(a.mode[1]))
        p5 == SetIfNotNone(p4, "f", a.output_format, StrV(a.output_format[1]))
    IN  SetIfNotNone(p5, "ar", a.auto_rotate, StrV(a.auto_rotate[1]))

video_snapshot_params(a) ==
    LET p1 == SetIfNotNone(<<>>, "t", a.time, IntV(a.time[1]))
        p2 == SetIfNotNone(p1, "w", a.width, IntV(a.width[1]))
        p3 == SetIfNotNone(p2, "h", a.height, IntV(a.height[1]))
        p4 == SetIfNotNone(p3, "m", a.mode, StrV(a.mode[1]))
        p5 == SetIfNotNone(p4, "f", a.output_format, StrV(a.output_format[1]))
    IN  SetIfNotNone(p5, "ar", a.auto_rotate, StrV(a.auto_rotate[1]))

\* The generator's own filter, if v is not None, drops nothing: only values
\* that are not None are stored in params.
video_snapshot_directive(a) ==
    LET params == video_snapshot_params(a)
    IN  IF Len(params) > 0 THEN "video/snapshot" \o JoinItems(params)
        ELSE "video/snapshot"

image_format_directive(a) == "image/format," \o a.output_format

\* image_resize_params, but testing p for truth, which treats p = 0 as absent.
image_resize_params_truthy_p(a) ==
    IF a.p # None /\ a.p[1] # 0 THEN DictSet(<<>>, "p", IntV(a.p[1]))
    ELSE
        LET p1 == IF TruthyStr(a.mode) THEN DictSet(<<>>, "m", StrV(a.mode[1])) ELSE <<>>
            p2 == SetIfNotNone(p1, "w", a.width, IntV(a.width[1]))
            p3 == SetIfNotNone(p2, "h", a.height, IntV(a.height[1]))
            p4 == SetIfNotNone(p3, "l", a.long, IntV(a.long[1]))
            p5 == SetIfNotNone(p4, "s", a.short, IntV(a.short[1]))
            p6 == SetIfNotNone(p5, "limit", a.limit, IntV(a.limit[1]))
        IN  IF TruthyStr(a.color) THEN DictSet(p6, "color", StrV(a.color[1])) ELSE p6

image_resize_params(a) ==
    IF a.p # None THEN DictSet(<<>>, "p", IntV(a.p[1]))
    ELSE
        LET p1 == IF TruthyStr(a.mode) THEN DictSet(<<>>, "m", StrV(a.mode[1])) ELSE <<>>
            p2 == SetIfNotNone(p1, "w", a.width, IntV(a.width[1]))
            p3 == SetIfNotNone(p2, "h", a.height, IntV(a.height[1]))
            p4 == SetIfNotNone(p3, "l", a.long, IntV(a.long[1]))
            p5 == SetIfNotNone(p4, "s", a.short, IntV(a.short[1]))
            p6 == SetIfNotNone(p5, "limit", a.limit, IntV(a.limit[1]))
        IN  IF TruthyStr(a.color) THEN DictSet(p6, "color", StrV(a.color[1])) ELSE p6

image_resize_directive(a) ==
    LET params == image_resize_params(a)
    IN  IF Len(params) > 0 THEN "image/resize" \o JoinItems(params)
        ELSE "image/resize"

\* url_safe_b64encode, but keeping the '=' padding.
url_safe_b64encode_padded(s) == AsciiStr(urlsafe_b64encode(Utf8Encode(s)))

\* url_safe_b64encode(s), the helper local to image_watermark
url_safe_b64encode(s) == AsciiStr(RStripEq(urlsafe_b64encode(Utf8Encode(s))))

\* image_blind_watermark_params, but storing text only when it is not empty.
image_blind_watermark_params_skip_empty(a) ==
    LET p1 == IF a.text # <<>>
              THEN DictSet(<<>>, "text", StrV(url_safe_b64encode(a.text))) ELSE <<>>
        p2 == SetIfNotNone(p1, "version", a.version, IntV(a.version[1]))
    IN  SetIfNotNone(p2, "level", a.level, IntV(a.level[1]))

image_blind_watermark_params(a) ==
    LET p1 == DictSet(<<>>, "text", StrV(url_safe_b64encode(a.text)))
        p2 == SetIfNotNone(p1, "version", a.version, IntV(a.version[1]))
    IN  SetIfNotNone(p2, "level", a.level, IntV(a.level[1]))

image_blind_watermark_directive(a) ==
    "image/blindwatermark" \o JoinItems(image_blind_watermark_params(a))

\* param_map of image_watermark, in its insertion order
param_map ==
    << <<"transparency", "t">>, <<"gravity", "g">>, <<"x", "x">>, <<"y", "y">>,
       <<"voffset", "voffset">>, <<"rotate", "rotate">>, <<"fill", "fill">>,
       <<"color", "color">>, <<"size", "size">>, <<"shadow", "shadow">>,
       <<"p", "P">>, <<"order", "order">>, <<"align", "align">>,
       <<"interval", "interval">> >>

\* "?x-tos-process="
XTosProcessInfix == <<63, 120, 45, 116, 111, 115, 45, 112, 114, 111, 99, 101, 115, 115, 61>>

\* Python truthiness of config.get(k): None, 0 and "" are falsy.
TruthyOpt(o) == o # None /\ Truthy(o[1])

\* The first part of the loop body: image, text and font_type.
watermark_leading_params(config) ==
    LET image == CfgGet(config, "image")
        image_process == CfgGet(config, "image_process")
        image_val == IF TruthyOpt(image_process)
                     THEN image[1].cp \o XTosProcessInfix \o image_process[1].cp
                     ELSE image[1].cp
        l1 == IF TruthyOpt(image)
              THEN <<"image_" \o url_safe_b64encode(image_val)>>
              ELSE <<>>
        text == CfgGet(config, "text")
        l2 == IF TruthyOpt(text)
              THEN Append(l1, "text_" \o url_safe_b64encode(text[1].cp))
              ELSE l1
        font_type == CfgGet(config, "font_type")
    IN  IF TruthyOpt(font_type)
        THEN Append(l2, "type_" \o url_safe_b64encode(font_type[1].cp))
        ELSE l2

\* The second part: for k, v in param_map.items(): if config.get(k) is not None
RECURSIVE watermark_general_params(_, _)
watermark_general_params(config, pm) ==
    IF pm = <<>> THEN <<>>
    ELSE (IF CfgGet(config, pm[1][1]) # None
          THEN <<pm[1][2] \o "_" \o Format(config[pm[1][1]])>>
          ELSE <<>>)
         \o watermark_general_params(config, Tail(pm))

\* watermark_params_list, but with the general parameters appended first.
watermark_params_list_general_first(config) ==
    watermark_general_params(config, param_map) \o watermark_leading_params(config)

watermark_params_list(config) ==
    watermark_leading_params(config) \o watermark_general_params(config, param_map)

\* watermark_actions, but appending an action for every config, also one
\* whose params_list is empty.
RECURSIVE watermark_actions_unguarded(_)
watermark_actions_unguarded(watermarks) ==
    IF watermarks = <<>> THEN <<>>
    ELSE <<"watermark," \o Join(",", watermark_params_list(Head(watermarks)))>>
         \o watermark_actions_unguarded(Tail(watermarks))

\* for config in watermarks: ... if params_list: actions.append(action)
RECURSIVE watermark_actions(_)
watermark_actions(watermarks) ==
    IF watermarks = <<>> THEN <<>>
    ELSE LET params_list == watermark_params_list(Head(watermarks))
         IN  (IF params_list # <<>>
              THEN <<"watermark," \o Join(",", params_list)>>
              ELSE <<>>)
             \o watermark_actions(Tail(watermarks))

\* image_watermark_directive, but leaving out the '/' when there is no action.
image_watermark_directive_bare(a) ==
    IF watermark_actions(a.watermarks) = <<>> THEN "image"
    ELSE "image/" \o Join("/", watermark_actions(a.watermarks))

image_watermark_directive(a) == "image/" \o Join("/", watermark_actions(a.watermarks))

\* --------------------------------------------------------- is_text_file
text_extensions ==
    { <<46, 116, 120, 116>>,                 \* .txt
      <<46, 108, 111, 103>>,                 \* .log
      <<46, 106, 115, 111, 110>>,            \* .json
      <<46, 120, 109, 108>>,                 \* .xml
      <<46, 121, 109, 108>>,                 \* .yml
      <<46, 121, 97, 109, 108>>,             \* .yaml
      <<46, 109, 100>>,                      \* .md
      <<46, 99, 115, 118>>,                  \* .csv
      <<46, 105, 110, 105>>,                 \* .ini
      <<46, 99, 111, 110, 102>>,             \* .conf
      <<46, 112, 121>>,                      \* .py
      <<46, 106, 115>>,                      \* .js
      <<46, 104, 116, 109, 108>>,            \* .html
      <<46, 99, 115, 115>>,                  \* .css
      <<46, 115, 104>>,                      \* .sh
      <<46, 98, 97, 115, 104>>,              \* .bash
      <<46, 99, 102, 103>>,                  \* .cfg
      <<46, 112, 114, 111, 112, 101, 114, 116, 105, 101, 115>> }  \* .properties

\* is_text_file without the lower().
is_text_file_case_sensitive(key) == \E ext \in text_extensions : EndsWith(key, ext)

is_text_file(key) == \E ext \in text_extensions : EndsWith(Lower(key), ext)

\* ------------------------------------------------------------ operations
Ops ==
    { "get_object", "video_info", "video_snapshot", "image_info", "image_process",
      "image_format", "image_resize", "image_watermark", "image_blind_watermark" }

\* The operations that take saveas_object and saveas_bucket.
SaveAsOps ==
    { "video_snapshot", "image_process", "image_format", "image_resize",
      "image_watermark", "image_blind_watermark" }

\* The params argument of self.get: none for get_object, else the query dict.
BuildQuery(o, a) ==
    CASE o = "get_object" -> NoParams
      [] o = "video_info" -> ProcessQuery("video/info")
      [] o = "image_info" -> ProcessQuery("image/info")
      [] o = "video_snapshot" -> WithSaveAs(ProcessQuery(video_snapshot_directive(a)), a)
      [] o = "image_process" -> WithSaveAs(ProcessQuery(a.process_uri), a)
      [] o = "image_format" -> WithSaveAs(ProcessQuery(image_format_directive(a)), a)
      [] o = "image_resize" -> WithSaveAs(ProcessQuery(image_resize_directive(a)), a)
      [] o = "image_watermark" -> WithSaveAs(ProcessQuery(image_watermark_directive(a)), a)
      [] o = "image_blind_watermark" ->
             WithSaveAs(ProcessQuery(image_blind_watermark_directive(a)), a)

\* ReturnsText, but testing saveas_object against None instead of its truth.
ReturnsTextIfNotNone(o, a) ==
    CASE o = "get_object" -> is_text_file(a.key)
      [] o \in {"video_info", "image_info"} -> TRUE
      [] OTHER -> a.saveas_object # None

\* Whether the operation returns content.decode('utf-8') rather than
\* base64.b64encode(content).decode().
ReturnsText(o, a) ==
    CASE o = "get_object" -> is_text_file(a.key)
      [] o \in {"video_info", "image_info"} -> TRUE
      [] OTHER -> TruthyCp(a.saveas_object)

\* The return statement of an operation: the str returned, or None where
\* decoding raises.
ReturnValue(o, a, body) ==
    IF ReturnsText(o, a)
    THEN (IF Utf8Decode(body).ok THEN Some(Utf8Decode(body).text) ELSE None)
    ELSE Some(b64encode(body))

\* ----------------------------------------------------------------- state
VARIABLES
    pc,         \* where the operation is: idle, request, status, stream, finally, done
    op,         \* the ObjectResource method invoked
    args,       \* its arguments
    query,      \* the params dict it built
    requests,   \* the calls of self.get made so far, in order
    response,   \* the local variable response: None or the response object
    content,    \* the bytearray accumulated from the chunks
    pos,        \* how many body bytes the chunk iterator has yielded
    closes,     \* how many times response.aclose() has run
    exc,        \* the exception in flight or raised to the caller, "" if none
    result,     \* the value returned to the caller, None if none
    tool_pc,    \* where get_credential_from_request is: idle, resolved
    raw_request,    \* ctx.request_context.request: None or the request
    environ,    \* os.environ, as far as the resolver reads it
    credential, \* the Credential returned, None if none
    cred_exc,   \* the exception the resolver raised, "" if none
    TOS_CONFIG, \* the module-level TOS_CONFIG of config.py
    invocations \* the tool invocations in progress, each with its own locals

fetchVars == <<pc, op, args, query, requests, response, content, pos, closes, exc, result>>
credVars == <<tool_pc, raw_request, environ, credential, cred_exc>>
configVars == <<TOS_CONFIG, invocations>>
vars == <<fetchVars, credVars, configVars>>

\* ---------------------------------------------------------------- inputs
\* Bytes a body is made of: "H", and the two bytes of U+00E9, each of which
\* alone is malformed UTF-8.
BodyBytes == {72, 195, 169}

RECURSIVE SeqsUpTo(_, _)
SeqsUpTo(S, n) ==
    IF n = 0 THEN {<<>>}
    ELSE LET shorter == SeqsUpTo(S, n - 1)
         IN  shorter \cup {Append(q, x) : q \in {r \in shorter : Len(r) = n - 1}, x \in S}

Bodies == SeqsUpTo(BodyBytes, MaxBodyLen)

\* The content-length header: missing, 0, the limit, one more than the limit.
ContentLengths == {None} \cup {Some(n) : n \in {0, max_object_size, max_object_size + 1}}

\* What the server may answer: a success status with any of these headers and
\* any body, whatever the header says, or an error status, whose body the
\* operations never stream.
Responses ==
    [body : Bodies, status_code : {200, 206}, content_length : ContentLengths]
    \cup [body : {<<>>, <<72>>, <<123, 125>>}, status_code : {404, 500},
          content_length : {None, Some(1)}]

\* The answers used where the arguments, not the answer, are varied.
FewResponses ==
    { [body |-> <<72, 105>>, status_code |-> 200, content_length |-> None],
      [body |-> <<123, 125>>, status_code |-> 404, content_length |-> Some(2)] }

\* "a.txt", "A.TXT", "a.png", "txt", "n.Md.gz"
Keys ==
    { <<97, 46, 116, 120, 116>>, <<65, 46, 84, 88, 84>>, <<97, 46, 112, 110, 103>>,
      <<116, 120, 116>>, <<110, 46, 77, 100, 46, 103, 122>> }

\* "v.mp4" and "a.txt"
KeyVideo == <<118, 46, 109, 112, 52>>
KeyText == <<97, 46, 116, 120, 116>>

\* saveas_object: not given, "", ">>>é";  saveas_bucket: not given, "", "?>?".
\* The base64 of the two texts has padding, '+' and '/'.
SaveAsObjects == {None, Some(<<>>), Some(<<62, 62, 62, 233>>)}
SaveAsBuckets == {None, Some(<<>>), Some(<<63, 62, 63>>)}

\* "Conf", "logo.png", "image/resize,p_10", "wqy-zenhei"
CpConf == <<67, 111, 110, 102>>
CpLogo == <<108, 111, 103, 111, 46, 112, 110, 103>>
CpResize == <<105, 109, 97, 103, 101, 47, 114, 101, 115, 105, 122, 101, 44, 112, 95, 49, 48>>
CpFont == <<119, 113, 121, 45, 122, 101, 110, 104, 101, 105>>
\* ">>>" and "?>?", whose base64 holds the 6-bit values 62 and 63
CpArrows == <<62, 62, 62>>
CpMarks == <<63, 62, 63>>

\* The example of the image_watermark docstring.
ExampleWatermarks ==
    << ("image" :> CpV(CpLogo)) @@ ("image_process" :> CpV(CpResize))
         @@ ("gravity" :> StrV("nw")),
       ("text" :> CpV(CpConf)) @@ ("color" :> StrV("FF0000")) @@ ("size" :> IntV(60))
         @@ ("gravity" :> StrV("center")) @@ ("rotate" :> IntV(45)) >>

\* Arguments with the save-as pair varied and one set of processing parameters.
ArgsSmall(o) ==
    CASE o = "get_object" -> [key : Keys]
      [] o \in {"video_info", "image_info"} -> [key : {KeyVideo}]
      [] o = "video_snapshot" ->
             [key : {KeyText}, time : {Some(0)}, width : {None}, height : {None},
              mode : {Some("fast")}, output_format : {None}, auto_rotate : {None},
              saveas_object : SaveAsObjects, saveas_bucket : SaveAsBuckets]
      [] o = "image_process" ->
             [key : {KeyText}, process_uri : {"image/format,png"},
              saveas_object : SaveAsObjects, saveas_bucket : SaveAsBuckets]
      [] o = "image_format" ->
             [key : {KeyText}, output_format : {"png"},
              saveas_object : SaveAsObjects, saveas_bucket : SaveAsBuckets]
      [] o = "image_resize" ->
             [key : {KeyText}, mode : {None}, width : {Some(100)}, height : {None},
              long : {None}, short : {None}, limit : {None}, p : {None}, color : {None},
              saveas_object : SaveAsObjects, saveas_bucket : SaveAsBuckets]
      [] o = "image_watermark" ->
             [key : {KeyText}, watermarks : {ExampleWatermarks},
              saveas_object : SaveAsObjects, saveas_bucket : SaveAsBuckets]
      [] o = "image_blind_watermark" ->
             [key : {KeyText}, text : {CpConf}, version : {None}, level : {Some(2)},
              saveas_object : SaveAsObjects, saveas_bucket : SaveAsBuckets]

\* ------------------------------------------- inputs of the directive builders
\* Longest watermarks list.
MaxWatermarks == 2

\* Watermark configs: the two of the docstring example, an empty one, one with
\* an unknown key only, image_process without image, an empty-string gravity,
\* empty image and text, a zero margin, a font with general parameters, a
\* gravity outside the nine positions, image, text and font together, an
\* empty-string image_process, image_process beside text but without image,
\* and non-ASCII and punctuation text values.
WatermarkConfigs ==
    { ExampleWatermarks[1],
      ExampleWatermarks[2],
      <<>>,
      ("foo" :> IntV(1)),
      ("image_process" :> CpV(CpResize)),
      ("gravity" :> StrV("")),
      ("image" :> CpV(<<>>)) @@ ("text" :> CpV(<<>>)),
      ("x" :> IntV(0)),
      ("font_type" :> CpV(CpFont)) @@ ("interval" :> IntV(5))
        @@ ("transparency" :> IntV(50)) @@ ("p" :> IntV(30)),
      ("gravity" :> StrV("middle")),
      ("order" :> IntV(1)) @@ ("font_type" :> CpV(CpFont)) @@ ("text" :> CpV(CpConf))
        @@ ("image" :> CpV(CpLogo)) @@ ("align" :> IntV(2)),
      ("image_process" :> CpV(<<>>)) @@ ("image" :> CpV(CpLogo)),
      ("shadow" :> IntV(50)) @@ ("image_process" :> CpV(CpResize))
        @@ ("text" :> CpV(CpConf)),
      ("font_type" :> CpV(CpArrows)) @@ ("text" :> CpV(CpMarks))
        @@ ("image" :> CpV(<<233>>)) }

\* Arguments with the processing parameters varied, inside and outside their
\* documented domains.
ArgsRich(o) ==
    CASE o = "video_snapshot" ->
             [key : {KeyVideo},
              time : {None, Some(0), Some(1500)},
              width : {None, Some(0), Some(640)},
              height : {None, Some(0), Some(360)},
              mode : {None, Some(""), Some("fast")},
              output_format : {None, Some("png")},
              auto_rotate : {None, Some("auto")},
              saveas_object : {None}, saveas_bucket : {None}]
      [] o = "image_process" ->
             [key : {KeyText},
              process_uri : {"image/format,png", "image/format,png/resize,w_100"},
              saveas_object : {None, Some(<<111>>)}, saveas_bucket : {None}]
      [] o = "image_format" ->
             [key : {KeyText}, output_format : {"jpg", "png", "heic", "exe", ""},
              saveas_object : {None, Some(<<111>>)}, saveas_bucket : {None}]
      [] o = "image_resize" ->
             [key : {KeyText},
              mode : {None, Some(""), Some("lfit")},
              width : {None, Some(0), Some(100)},
              height : {None, Some(100)},
              long : {None, Some(0)},
              short : {None, Some(7)},
              limit : {None, Some(1)},
              p : {None, Some(0), Some(50), Some(1001)},
              color : {None, Some(""), Some("FF0000")},
              saveas_object : {None}, saveas_bucket : {None}]
      [] o = "image_watermark" ->
             [key : {KeyText}, watermarks : SeqsUpTo(WatermarkConfigs, MaxWatermarks),
              saveas_object : {None}, saveas_bucket : {None}]
      [] o = "image_blind_watermark" ->
             [key : {KeyText}, text : {<<>>, CpConf, <<233>>, CpArrows, CpMarks},
              version : {None, Some(1), Some(3)},
              level : {None, Some(2), Some(9)},
              saveas_object : {None}, saveas_bucket : {None}]
      [] OTHER -> ArgsSmall(o)

\* ------------------------------------------- inputs of the tool wrappers
\* How many tool invocations run concurrently.
NumInvocations == 2
Invocations == 1..NumInvocations

\* LOCAL_DEPLOY_MODE of config.py, and a deploy mode that is not it.
LOCAL_DEPLOY_MODE == "local"
RemoteDeployMode == "remote"

\* TosConfig(access_key=..., ..., buckets=...)
TosConfig(ak, sk, token, region, endpoint, deploy_mode, max_size, buckets) ==
    [max_object_size |-> max_size, region |-> region, endpoint |-> endpoint,
     deploy_mode |-> deploy_mode, buckets |-> buckets, access_key |-> ak,
     secret_key |-> sk, security_token |-> token]

\* The TOS_CONFIG the process was started with, for a deploy mode.
GlobalConfig(mode) ==
    TosConfig(StrV("AK-global"), StrV("SK-global"), StrV("ST-global"), "cn-beijing",
              "tos-cn-beijing.volces.com", mode, max_object_size, <<"bucket-a">>)

\* A config is held by reference: the module-level object, or an object of
\* the invocation's own.
GlobalRef == [global |-> TRUE]
OwnConfig(c) == [own |-> c]
Deref(ref, global) == IF "global" \in DOMAIN ref THEN global ELSE ref.own

\* An invocation that has not started.
IdleInvocation ==
    [config |-> None, pc |-> "idle", exc |-> "", request |-> None, resource |-> None,
     keys |-> None, auth_read |-> FALSE, returned |-> FALSE]

\* --------------------------------------------------------------- actions
Init ==
    /\ pc = "idle"
    /\ op = ""
    /\ args = <<>>
    /\ query = NoParams
    /\ requests = <<>>
    /\ response = None
    /\ content = <<>>
    /\ pos = 0
    /\ closes = 0
    /\ exc = ""
    /\ result = None
    /\ tool_pc = "idle"
    /\ raw_request = None
    /\ environ = <<>>
    /\ credential = None
    /\ cred_exc = ""
    /\ TOS_CONFIG = GlobalConfig(LOCAL_DEPLOY_MODE)
    /\ invocations = [i \in Invocations |-> IdleInvocation]

\* A method of ObjectResource is called: it builds its query and enters the
\* try block with response = None.
Invoke(o, a) ==
    /\ pc = "idle"
    /\ op' = o
    /\ args' = a
    /\ query' = BuildQuery(o, a)
    /\ response' = None
    /\ pc' = "request"
    /\ UNCHANGED <<requests, content, pos, closes, exc, result>>
    /\ UNCHANGED <<credVars, configVars>>

\* Request, but an error status is answered by asking once more.
RequestRetrying(r) ==
    /\ pc = "request"
    /\ LET call == [params |-> query, key |-> args.key]
       IN  requests' = IF r.status_code \in {200, 206}
                       THEN Append(requests, call)
                       ELSE Append(Append(requests, call), call)
    /\ response' = Some(r)
    /\ pc' = "status"
    /\ UNCHANGED <<op, args, query, content, pos, closes, exc, result>>
    /\ UNCHANGED <<credVars, configVars>>

\* response = await self.get(bucket=..., key=key, params=query) returns r.
Request(r) ==
    /\ pc = "request"
    /\ requests' = Append(requests, [params |-> query, key |-> args.key])
    /\ response' = Some(r)
    /\ pc' = "status"
    /\ UNCHANGED <<op, args, query, content, pos, closes, exc, result>>
    /\ UNCHANGED <<credVars, configVars>>

\* await self.get(...) raises: response stays None and the finally block runs.
RequestRaises ==
    /\ pc = "request"
    /\ requests' = Append(requests, [params |-> query, key |-> args.key])
    /\ exc' = "request_error"
    /\ pc' = "finally"
    /\ UNCHANGED <<op, args, query, response, content, pos, closes, result>>
    /\ UNCHANGED <<credVars, configVars>>

\* int(response.headers.get('content-length', "0"))
ContentLength(r) == IF r.content_length = None THEN 0 ELSE r.content_length[1]

\* if response.status_code == 200 or response.status_code == 206
StatusOk(r) == r.status_code = 200 \/ r.status_code = 206

\* response.json() of an error reply: json.loads of its body. Of the texts an
\* error reply of the model has, JSON are "{}", "[]" and an unsigned integer;
\* for any other body response.json() raises.
IsJsonText(body) ==
    \/ body \in { <<123, 125>>, <<91, 93>> }
    \/ /\ body # <<>>
       /\ \A i \in 1..Len(body) : body[i] >= 48 /\ body[i] <= 57
       /\ Len(body) = 1 \/ body[1] # 48

\* What the else branch raises: the Exception whose message holds
\* response.json(), or the error of response.json() itself, raised while the
\* message is being formatted.
BadStatusError(r) == IF IsJsonText(r.body) THEN "bad_status" ELSE "json_error"

\* CheckStatus, but the size test is >=, which also refuses an object of
\* exactly max_object_size.
CheckStatusGe ==
    /\ pc = "status"
    /\ LET r == response[1]
       IN  IF StatusOk(r)
           THEN IF ContentLength(r) >= max_object_size
                THEN /\ exc' = "too_large"
                     /\ pc' = "finally"
                     /\ UNCHANGED content
                ELSE /\ content' = <<>>
                     /\ pc' = "stream"
                     /\ UNCHANGED exc
           ELSE /\ exc' = BadStatusError(r)
                /\ pc' = "finally"
                /\ UNCHANGED content
    /\ UNCHANGED <<op, args, query, requests, response, pos, closes, result>>
    /\ UNCHANGED <<credVars, configVars>>

\* The status test and, under it, the content-length test; content = bytearray().
CheckStatus ==
    /\ pc = "status"
    /\ LET r == response[1]
       IN  IF StatusOk(r)
           THEN IF ContentLength(r) > max_object_size
                THEN /\ exc' = "too_large"
                     /\ pc' = "finally"
                     /\ UNCHANGED content
                ELSE /\ content' = <<>>
                     /\ pc' = "stream"
                     /\ UNCHANGED exc
           ELSE /\ exc' = BadStatusError(r)
                /\ pc' = "finally"
                /\ UNCHANGED content
    /\ UNCHANGED <<op, args, query, requests, response, pos, closes, result>>
    /\ UNCHANGED <<credVars, configVars>>

\* The next chunk of aiter_bytes(chunk_size): chunk_size bytes, fewer at the end.
NextChunk(body, p) ==
    SubSeq(body, p + 1, IF p + chunk_size <= Len(body) THEN p + chunk_size ELSE Len(body))

\* One iteration of the async for: content.extend(chunk).
ReadChunk ==
    /\ pc = "stream"
    /\ pos < Len(response[1].body)
    /\ LET chunk == NextChunk(response[1].body, pos)
       IN  /\ content' = content \o chunk
           /\ pos' = pos + Len(chunk)
    /\ UNCHANGED <<pc, op, args, query, requests, response, closes, exc, result>>
    /\ UNCHANGED <<credVars, configVars>>

\* The chunk iterator raises (the connection breaks while the body is read).
StreamRaises ==
    /\ pc = "stream"
    /\ exc' = "stream_error"
    /\ pc' = "finally"
    /\ UNCHANGED <<op, args, query, requests, response, content, pos, closes, result>>
    /\ UNCHANGED <<credVars, configVars>>

\* The iterator is exhausted: the return statement, whose decode may raise.
Return ==
    /\ pc = "stream"
    /\ pos = Len(response[1].body)
    /\ LET v == ReturnValue(op, args, content)
       IN  IF v = None
           THEN /\ exc' = "decode_error"
                /\ UNCHANGED result
           ELSE /\ result' = v
                /\ UNCHANGED exc
    /\ pc' = "finally"
    /\ UNCHANGED <<op, args, query, requests, response, content, pos, closes>>
    /\ UNCHANGED <<credVars, configVars>>

\* Finally, but the stream is closed on the successful path only.
FinallyCloseOnSuccess ==
    /\ pc = "finally"
    /\ closes' = IF response # None /\ exc = "" THEN closes + 1 ELSE closes
    /\ pc' = "done"
    /\ UNCHANGED <<op, args, query, requests, response, content, pos, exc, result>>
    /\ UNCHANGED <<credVars, configVars>>

\* finally: if response is not None: await response.aclose()
Finally ==
    /\ pc = "finally"
    /\ closes' = IF response # None THEN closes + 1 ELSE closes
    /\ pc' = "done"
    /\ UNCHANGED <<op, args, query, requests, response, content, pos, exc, result>>
    /\ UNCHANGED <<credVars, configVars>>

\* ------------------------------------------------ inputs of the resolver
\* What a field of the JSON object may be: missing, null, "", 0, or a string.
FieldKinds == {"absent", "null", "empty", "zero", "value"}

JsonField(k, kind, v) ==
    CASE kind = "absent" -> <<>>
      [] kind = "null" -> (k :> [null |-> TRUE])
      [] kind = "empty" -> (k :> StrV(""))
      [] kind = "zero" -> (k :> IntV(0))
      [] kind = "value" -> (k :> StrV(v))

\* The objects a payload may hold; tag tells the header's from the environment's.
JsonObjects(tag) ==
    { JsonField("AccessKeyId", a, "AK-" \o tag)
        @@ JsonField("SecretAccessKey", k, "SK-" \o tag)
        @@ JsonField("SessionToken", t, "ST-" \o tag)
        @@ JsonField("ExpiredTime", e, "2020-01-01T00:00:00Z")
        @@ JsonField("CurrentTime", c, "2026-01-01T00:00:00Z") :
      a \in FieldKinds, k \in FieldKinds, t \in FieldKinds, e \in {"absent", "value"},
      c \in {"absent", "value"} }

ObjectData(obj) ==
    [obj |-> obj, empty |-> FALSE, b64 |-> TRUE, utf8 |-> TRUE, json |-> "object"]

\* The empty string, text that is not base64, base64 of bytes that are not
\* UTF-8, of text that is not JSON, and of a JSON array.
BrokenData ==
    { [obj |-> <<>>, empty |-> TRUE, b64 |-> TRUE, utf8 |-> TRUE, json |-> "invalid"],
      [obj |-> <<>>, empty |-> FALSE, b64 |-> FALSE, utf8 |-> FALSE, json |-> "invalid"],
      [obj |-> <<>>, empty |-> FALSE, b64 |-> TRUE, utf8 |-> FALSE, json |-> "invalid"],
      [obj |-> <<>>, empty |-> FALSE, b64 |-> TRUE, utf8 |-> TRUE, json |-> "invalid"],
      [obj |-> <<>>, empty |-> FALSE, b64 |-> TRUE, utf8 |-> TRUE, json |-> "array"] }

HeaderAuths ==
    [scheme : {None, Some("Bearer")},
     data : BrokenData \cup {ObjectData(obj) : obj \in JsonObjects("header")}]

EnvAuths ==
    [scheme : {None},
     data : { ObjectData(JsonField("AccessKeyId", "value", "AK-env")
                           @@ JsonField("SecretAccessKey", "value", "SK-env")
                           @@ JsonField("SessionToken", "value", "ST-env")),
              [obj |-> <<>>, empty |-> FALSE, b64 |-> FALSE, utf8 |-> FALSE,
               json |-> "invalid"] }]

\* No request (stdio), a request without the header, a request with it.
RawRequests ==
    {None} \cup {Some([headers |-> <<>>])}
           \cup {Some([headers |-> ("authorization" :> a)]) : a \in HeaderAuths}

Environs == {<<>>} \cup {("authorization" :> a) : a \in EnvAuths}

\* ------------------------------------------------- the credential resolver
\* An authorization value is an optional scheme word, followed by a space, and
\* the data.  The data is described by what each step of the resolver makes of
\* it: whether it is the empty string, whether base64.b64decode accepts it,
\* whether the bytes are UTF-8, and what json.loads returns: nothing (it
\* raises), a value that is not an object, or an object, a function from its
\* keys to its values.
IsNull(v) == "null" \in DOMAIN v

\* data.get(k): None for a missing key and for a JSON null
DataGet(data, k) == IF k \in DOMAIN data /\ ~IsNull(data[k]) THEN Some(data[k]) ELSE None

\* not v, for v = data.get(k)
Falsy(o) == o = None \/ ~Truthy(o[1])

\* Credential(ak, sk, session_token, expired_time)
Credential(ak, sk, session_token, expired_time) ==
    [access_key |-> ak, secret_key |-> sk, security_token |-> session_token,
     expired_time |-> expired_time]

Raise(e) == [exc |-> e, credential |-> None]

\* ParseCredential, but not testing session_token.
ParseCredentialTwoFields(auth) ==
    LET base64_data == auth.data
    IN  IF ~base64_data.b64 THEN Raise("binascii.Error")
        ELSE IF ~base64_data.utf8 THEN Raise("UnicodeDecodeError")
        ELSE IF base64_data.json = "invalid" THEN Raise("JSONDecodeError")
        ELSE IF base64_data.json # "object" THEN Raise("AttributeError")
        ELSE LET data == base64_data.obj
                 ak == DataGet(data, "AccessKeyId")
                 sk == DataGet(data, "SecretAccessKey")
             IN  IF Falsy(ak) \/ Falsy(sk)
                 THEN Raise("Invalid credentials ak, sk, session_token is null")
                 ELSE [exc |-> "",
                       credential |-> Some(Credential(ak[1], sk[1],
                                                      IF "SessionToken" \in DOMAIN data
                                                      THEN data["SessionToken"]
                                                      ELSE [null |-> TRUE],
                                                      DataGet(data, "ExpiredTime")))]

\* ParseCredential, but refusing a payload without ExpiredTime.
ParseCredentialRequiringExpiry(auth) ==
    LET base64_data == auth.data
    IN  IF ~base64_data.b64 THEN Raise("binascii.Error")
        ELSE IF ~base64_data.utf8 THEN Raise("UnicodeDecodeError")
        ELSE IF base64_data.json = "invalid" THEN Raise("JSONDecodeError")
        ELSE IF base64_data.json # "object" THEN Raise("AttributeError")
        ELSE LET data == base64_data.obj
                 expired_time == DataGet(data, "ExpiredTime")
                 ak == DataGet(data, "AccessKeyId")
                 sk == DataGet(data, "SecretAccessKey")
                 session_token == DataGet(data, "SessionToken")
             IN  IF Falsy(ak) \/ Falsy(sk) \/ Falsy(session_token)
                 THEN Raise("Invalid credentials ak, sk, session_token is null")
                 ELSE IF expired_time = None
                 THEN Raise("Invalid credentials, expired")
                 ELSE [exc |-> "",
                       credential |-> Some(Credential(ak[1], sk[1], session_token[1],
                                                      expired_time))]

\* From the split on the first space to the return: the part after the scheme
\* is decoded, parsed and tested; the except clause logs and raises again.
ParseCredential(auth) ==
    LET base64_data == auth.data
    IN  IF ~base64_data.b64 THEN Raise("binascii.Error")
        ELSE IF ~base64_data.utf8 THEN Raise("UnicodeDecodeError")
        ELSE IF base64_data.json = "invalid" THEN Raise("JSONDecodeError")
        ELSE IF base64_data.json # "object" THEN Raise("AttributeError")
        ELSE LET data == base64_data.obj
                 expired_time == DataGet(data, "ExpiredTime")
                 ak == DataGet(data, "AccessKeyId")
                 sk == DataGet(data, "SecretAccessKey")
                 session_token == DataGet(data, "SessionToken")
             IN  IF Falsy(ak) \/ Falsy(sk) \/ Falsy(session_token)
                 THEN Raise("Invalid credentials ak, sk, session_token is null")
                 ELSE [exc |-> "",
                       credential |-> Some(Credential(ak[1], sk[1], session_token[1],
                                                      expired_time))]

\* raw_request.headers.get("authorization", None)
HeaderGet(request, name) ==
    IF name \in DOMAIN request.headers THEN Some(request.headers[name]) ELSE None

\* os.getenv("authorization", None)
Getenv(env, name) == IF name \in DOMAIN env THEN Some(env[name]) ELSE None

\* SelectAuth, but falling back to the environment whenever the header value
\* is falsy, an empty header included.
SelectAuthFallbackOnEmpty(request, env) ==
    LET a1 == IF request # None THEN HeaderGet(request[1], "authorization") ELSE None
    IN  IF a1 = None \/ (a1[1].scheme = None /\ a1[1].data.empty)
        THEN Getenv(env, "authorization")
        ELSE a1

\* auth = None; if raw_request: auth = the header; if auth is None: auth = the
\* environment variable
SelectAuth(request, env) ==
    LET a1 == IF request # None THEN HeaderGet(request[1], "authorization") ELSE None
    IN  IF a1 = None THEN Getenv(env, "authorization") ELSE a1

get_credential_from_request(request, env) ==
    LET auth == SelectAuth(request, env)
    IN  IF auth = None THEN Raise("Missing authorization info.")
        ELSE ParseCredential(auth[1])

\* A tool is invoked with this request and environment and resolves its
\* credential.
ResolveCredential(request, env) ==
    /\ tool_pc = "idle"
    /\ raw_request' = request
    /\ environ' = env
    /\ LET r == get_credential_from_request(request, env)
       IN  /\ credential' = r.credential
           /\ cred_exc' = r.exc
    /\ tool_pc' = "resolved"
    /\ UNCHANGED <<fetchVars, configVars>>

\* ------------------------------------------------------ the tool wrappers
\* The authorization header of invocation i's request: its own three keys.
InvocationAuth(i) ==
    [scheme |-> Some("Bearer"),
     data |-> ObjectData(JsonField("AccessKeyId", "value", "AK-" \o ToString(i))
                           @@ JsonField("SecretAccessKey", "value", "SK-" \o ToString(i))
                           @@ JsonField("SessionToken", "value", "ST-" \o ToString(i))
                           @@ JsonField("ExpiredTime", "value", "2020-01-01T00:00:00Z"))]

\* The request of invocation i: without the header, with its own keys, or
\* with a payload that lacks the session token.
ConfigRequests(i) ==
    { Some([headers |-> <<>>]),
      Some([headers |-> ("authorization" :> InvocationAuth(i))]),
      Some([headers |-> ("authorization" :>
                [scheme |-> None,
                 data |-> ObjectData(JsonField("AccessKeyId", "value", "AK-" \o ToString(i))
                                       @@ JsonField("SecretAccessKey", "value",
                                                    "SK-" \o ToString(i)))])]) }

\* The process starts in either deploy mode, with or without the
\* authorization environment variable.
InitConfig ==
    /\ pc = "idle"
    /\ op = ""
    /\ args = <<>>
    /\ query = NoParams
    /\ requests = <<>>
    /\ response = None
    /\ content = <<>>
    /\ pos = 0
    /\ closes = 0
    /\ exc = ""
    /\ result = None
    /\ tool_pc = "idle"
    /\ raw_request = None
    /\ environ \in Environs
    /\ credential = None
    /\ cred_exc = ""
    /\ TOS_CONFIG \in {GlobalConfig(LOCAL_DEPLOY_MODE), GlobalConfig(RemoteDeployMode)}
    /\ invocations = [i \in Invocations |-> IdleInvocation]

\* A tool is called: its task has its own request context, which is what
\* mcp.get_context().request_context.request gives inside that task.
ToolInvoke(i, request) ==
    /\ invocations[i].pc = "idle"
    /\ invocations' = [invocations EXCEPT ![i].pc = "config", ![i].request = request]
    /\ UNCHANGED <<TOS_CONFIG, fetchVars, credVars>>

\* get_tos_config, but storing the resolved keys in the module-level
\* TOS_CONFIG and returning that object.
get_tos_config_shared(i) ==
    /\ invocations[i].pc = "config"
    /\ IF TOS_CONFIG.deploy_mode = LOCAL_DEPLOY_MODE
       THEN /\ invocations' = [invocations EXCEPT ![i].pc = "resource",
                                                  ![i].config = Some(GlobalRef)]
            /\ UNCHANGED TOS_CONFIG
       ELSE LET r == get_credential_from_request(invocations[i].request, environ)
            IN  IF r.credential = None
                THEN /\ invocations' = [invocations EXCEPT ![i].pc = "raised",
                                                           ![i].auth_read = TRUE,
                                                           ![i].exc = r.exc]
                     /\ UNCHANGED TOS_CONFIG
                ELSE /\ TOS_CONFIG' = [TOS_CONFIG EXCEPT
                                          !.access_key = r.credential[1].access_key,
                                          !.secret_key = r.credential[1].secret_key,
                                          !.security_token = r.credential[1].security_token]
                     /\ invocations' = [invocations EXCEPT ![i].pc = "resource",
                                                           ![i].auth_read = TRUE,
                                                           ![i].config = Some(GlobalRef)]
    /\ UNCHANGED <<fetchVars, credVars>>

\* config = get_tos_config(): the module-level object in local deploy mode,
\* else a new TosConfig from the credential of the invocation's request; an
\* error of the resolver leaves through the wrapper's except: raise.
get_tos_config(i) ==
    /\ invocations[i].pc = "config"
    /\ IF TOS_CONFIG.deploy_mode = LOCAL_DEPLOY_MODE
       THEN invocations' = [invocations EXCEPT ![i].pc = "resource",
                                               ![i].config = Some(GlobalRef)]
       ELSE LET r == get_credential_from_request(invocations[i].request, environ)
            IN  IF r.credential = None
                THEN invocations' = [invocations EXCEPT ![i].pc = "raised",
                                                        ![i].auth_read = TRUE,
                                                        ![i].exc = r.exc]
                ELSE invocations' =
                         [invocations EXCEPT
                             ![i].pc = "resource",
                             ![i].auth_read = TRUE,
                             ![i].config =
                                 Some(OwnConfig(TosConfig(r.credential[1].access_key,
                                                          r.credential[1].secret_key,
                                                          r.credential[1].security_token,
                                                          TOS_CONFIG.region,
                                                          TOS_CONFIG.endpoint,
                                                          TOS_CONFIG.deploy_mode,
                                                          TOS_CONFIG.max_object_size,
                                                          <<>>)))]
    /\ UNCHANGED <<TOS_CONFIG, fetchVars, credVars>>

\* tos_resource = ObjectResource(config): the resource keeps the config object
\* and reads its max_object_size.
NewObjectResource(i) ==
    /\ invocations[i].pc = "resource"
    /\ invocations' =
           [invocations EXCEPT
               ![i].pc = "await",
               ![i].resource =
                   Some([max_object_size |->
                             Deref(invocations[i].config[1], TOS_CONFIG).max_object_size,
                         config |-> invocations[i].config[1]])]
    /\ UNCHANGED <<TOS_CONFIG, fetchVars, credVars>>

\* content = await tos_resource.<operation>(...): the request is made with the
\* keys the resource's config holds at that time; the operation returns, or
\* raises and the wrapper's except: raise passes the error on.
ToolAwait(i, raises) ==
    /\ invocations[i].pc = "await"
    /\ LET config == Deref(invocations[i].resource[1].config, TOS_CONFIG)
       IN  invocations' =
               [invocations EXCEPT
                   ![i].pc = IF raises THEN "raised" ELSE "done",
                   ![i].keys = Some(<<config.access_key, config.secret_key,
                                      config.security_token>>),
                   ![i].exc = IF raises THEN "operation_error" ELSE "",
                   ![i].returned = ~raises]
    /\ UNCHANGED <<TOS_CONFIG, fetchVars, credVars>>

\* ------------------------------------------------------- specifications
\* The fetch under every answer of the server.
Next ==
    \/ \E o \in Ops : \E a \in ArgsSmall(o) : Invoke(o, a)
    \/ \E r \in Responses : Request(r)
    \/ RequestRaises
    \/ CheckStatus
    \/ ReadChunk
    \/ StreamRaises
    \/ Return
    \/ Finally

Spec == Init /\ [][Next]_vars

\* The directive builders under every combination of their parameters.
NextDirective ==
    \/ \E o \in Ops : \E a \in ArgsRich(o) : Invoke(o, a)
    \/ \E r \in FewResponses : Request(r)
    \/ RequestRaises
    \/ CheckStatus
    \/ ReadChunk
    \/ StreamRaises
    \/ Return
    \/ Finally

SpecDirective == Init /\ [][NextDirective]_vars

\* The credential resolver under every request and environment.
NextCred == \E request \in RawRequests : \E env \in Environs : ResolveCredential(request, env)

SpecCred == Init /\ [][NextCred]_vars

\* Concurrent tool invocations, interleaved at every step.
NextConfig ==
    \/ \E i \in Invocations : \E request \in ConfigRequests(i) : ToolInvoke(i, request)
    \/ \E i \in Invocations : get_tos_config(i)
    \/ \E i \in Invocations : NewObjectResource(i)
    \/ \E i \in Invocations : \E raises \in BOOLEAN : ToolAwait(i, raises)

SpecConfig == InitConfig /\ [][NextConfig]_vars

\* ---------------------------------------------------------------- claims
Done == pc = "done"
Returned == Done /\ exc = ""
Raised == Done /\ exc # ""

\* C1: every invocation of an ObjectResource operation issues exactly one
\* HTTP request, whatever the outcome: none before the call of self.get,
\* one from then on, and that one carries the query the operation built.
C1_OneRequest ==
    /\ Len(requests) = IF pc \in {"idle", "request"} THEN 0 ELSE 1
    /\ Len(requests) = 1 => requests[1] = [params |-> query, key |-> args.key]

\* An operation that met an error status has finished with its one request.
C1_Witness == Done /\ exc = "bad_status" /\ Len(requests) = 1

\* C2: in every reachable state the number of body bytes accumulated is at
\* most max_object_size, whatever the server answers.
C2_SizeGuardWhileAccumulating == Len(content) <= max_object_size

\* C3: once self.get has returned a response the stream is closed exactly once
\* before the operation finishes, on every path; when self.get raised there is
\* no response and no close; and no chunk is read after the close.
C3_ClosedOnce ==
    /\ [](closes = IF Done /\ response # None THEN 1 ELSE 0)
    /\ [](Done /\ exc = "request_error" => response = None /\ closes = 0)
    /\ [][closes > 0 => content' = content /\ pos' = pos /\ closes' = closes]_vars

\* An operation whose stream broke after a chunk was read has closed it.
C3_Witness == Done /\ exc = "stream_error" /\ pos > 0 /\ closes = 1

\* The keys of the model whose lower-cased form ends with a text extension:
\* "a.txt" and "A.TXT".
C4_TextKeys == {<<97, 46, 116, 120, 116>>, <<65, 46, 84, 88, 84>>}

C5_SaveAsResult ==
    (op \in SaveAsOps /\ Done) =>
        LET body == response[1].body
            sent == "x-tos-save-object" \in DOMAIN requests[1].params
        IN  /\ sent <=> (args.saveas_object # None /\ args.saveas_object[1] # <<>>)
            /\ result # None =>
                   result[1] = IF sent THEN Utf8Decode(body).text ELSE b64encode(body)
            /\ result # None /\ sent => Utf8Decode(body).ok
            /\ Raised /\ exc = "decode_error" => sent

\* image_resize with saveas_object returned the save-as information as text.
C5_Witness ==
    /\ op = "image_resize"
    /\ Returned
    /\ "x-tos-save-object" \in DOMAIN requests[1].params
    /\ response[1].body = <<72, 72>>
    /\ result = Some(<<72, 72>>)

\* The documented domains the claim lists: p of image_resize in 0..1000, the
\* seven output formats of image_format, version and level of the blind
\* watermark, the nine gravity positions of a watermark.
C6_InDomain(o, a) ==
    CASE o = "image_resize" -> a.p = None \/ a.p[1] \in 0..1000
      [] o = "image_format" ->
             a.output_format \in {"jpg", "png", "webp", "bmp", "gif", "tiff", "heic"}
      [] o = "image_blind_watermark" ->
             /\ a.version = None \/ a.version[1] \in {1, 2}
             /\ a.level = None \/ a.level[1] \in {1, 2, 3}
      [] o = "image_watermark" ->
             \A i \in 1..Len(a.watermarks) :
                 "gravity" \in DOMAIN a.watermarks[i] =>
                     a.watermarks[i]["gravity"] \in
                         { StrV(g) : g \in {"nw", "north", "ne", "west", "center",
                                            "east", "sw", "south", "se"} }
      [] OTHER -> TRUE

\* C6: every parameter is validated before it is put into a directive: no
\* request is sent whose directive was built from a value outside its
\* documented domain.
C6_ValidatedBeforeSent == Len(requests) > 0 => C6_InDomain(op, args)

\* One ",<k>_<v>" element, or nothing for a parameter that is None.
C9_Elem(k, o, txt) == IF o = None THEN "" ELSE "," \o k \o "_" \o txt

\* C9: the directive video_snapshot sends is 'video/snapshot' followed by one
\* ',<k>_<v>' element per parameter that is not None, in the order t, w, h, m,
\* f, ar; a value of 0 is kept; with no parameter it is 'video/snapshot'.
C9_SnapshotDirective ==
    (op = "video_snapshot" /\ Len(requests) = 1) =>
        LET a == args
            d == requests[1].params["x-tos-process"]
            all == <<a.time, a.width, a.height, a.mode, a.output_format, a.auto_rotate>>
        IN  /\ d = "video/snapshot"
                   \o C9_Elem("t", a.time, ToString(a.time[1]))
                   \o C9_Elem("w", a.width, ToString(a.width[1]))
                   \o C9_Elem("h", a.height, ToString(a.height[1]))
                   \o C9_Elem("m", a.mode, a.mode[1])
                   \o C9_Elem("f", a.output_format, a.output_format[1])
                   \o C9_Elem("ar", a.auto_rotate, a.auto_rotate[1])
            /\ all = <<None, None, None, None, None, None>> => d = "video/snapshot"
            /\ all = <<Some(0), Some(0), None, None, None, None>>
                   => d = "video/snapshot,t_0,w_0"
            /\ all = <<None, None, Some(0), Some("fast"), None, Some("auto")>>
                   => d = "video/snapshot,h_0,m_fast,ar_auto"

\* video_snapshot sent a directive with all six parameters, two of them 0.
C9_Witness ==
    /\ op = "video_snapshot"
    /\ Done
    /\ args.time = Some(0)
    /\ args.width = Some(0)
    /\ requests[1].params["x-tos-process"] = "video/snapshot,t_0,w_0,h_360,m_fast,f_png,ar_auto"

\* The keys the image_watermark docstring describes.
C10_RecognisedKeys ==
    { "image", "image_process", "text", "font_type", "transparency", "gravity", "x", "y",
      "voffset", "rotate", "fill", "color", "size", "shadow", "p", "order", "align",
      "interval" }

\* A value that is not an empty string.
C10_NonEmpty(v) == IsInt(v) \/ (IF IsStr(v) THEN v.str # "" ELSE Len(v.cp) > 0)

\* An entry with at least one recognised non-empty parameter.
C10_HasRecognisedNonEmpty(config) ==
    \E k \in C10_RecognisedKeys \cap DOMAIN config : C10_NonEmpty(config[k])

\* An entry for which the code emits an action: a truthy image, text or
\* font_type, or any of the fourteen general parameters, whatever its value.
C10_EmitsAction(config) ==
    \/ \E k \in {"image", "text", "font_type"} \cap DOMAIN config : Truthy(config[k])
    \/ \E k \in (C10_RecognisedKeys \ {"image", "image_process", "text", "font_type"})
                  \cap DOMAIN config : TRUE

\* 'image/' followed by one 'watermark,<parameters joined by ,>' action per
\* kept entry, in the order of the list, joined by '/'.
C10_Expected(kept) ==
    "image/" \o Join("/", [i \in 1..Len(kept) |->
                              "watermark," \o Join(",", watermark_params_list(kept[i]))])

\* C10 as stated: one action per entry of the list that has at least one
\* recognised non-empty parameter, in list order, and none for the others.
C10_OneActionPerNonEmptyEntry ==
    (op = "image_watermark" /\ Len(requests) = 1) =>
        requests[1].params["x-tos-process"] =
            C10_Expected(SelectSeq(args.watermarks, C10_HasRecognisedNonEmpty))

\* C10 as amended: one action per entry that has a truthy image, text or
\* font_type or any general parameter that is not None (an empty-string general
\* value counts, image_process without image does not), in list order.
C10_OneActionPerEmittingEntry ==
    (op = "image_watermark" /\ Len(requests) = 1) =>
        LET d == requests[1].params["x-tos-process"]
        IN  /\ d = C10_Expected(SelectSeq(args.watermarks, C10_EmitsAction))
            /\ args.watermarks = ExampleWatermarks =>
                   d = "image/watermark,image_bG9nby5wbmc_eC10b3MtcHJvY2Vzcz1pbWFnZS9yZXNpemUscF8xMA,g_nw/watermark,text_Q29uZg,g_center,rotate_45,color_FF0000,size_60"
            /\ args.watermarks = << <<>>, ("x" :> IntV(0)) >> => d = "image/watermark,x_0"

\* image_watermark sent one action for a list of an empty entry and an entry
\* with an empty-string gravity.
C10_Witness ==
    /\ op = "image_watermark"
    /\ Done
    /\ args.watermarks = << <<>>, ("gravity" :> StrV("")) >>
    /\ requests[1].params["x-tos-process"] = "image/watermark,g_"

\* The authorization header of the request, None without a request or header.
C7_Header ==
    IF raw_request # None /\ "authorization" \in DOMAIN raw_request[1].headers
    THEN Some(raw_request[1].headers["authorization"])
    ELSE None

\* The authorization environment variable, None when it is not set.
C7_Env == IF "authorization" \in DOMAIN environ THEN Some(environ["authorization"]) ELSE None

\* C7: the resolver takes the authorization value from the request's header
\* when there is one, from the environment variable only when the header is
\* absent, and raises 'Missing authorization info.', returning no credential,
\* when neither gives a value.
C7_CredentialSource ==
    tool_pc = "resolved" =>
        /\ C7_Header # None =>
               /\ [exc |-> cred_exc, credential |-> credential] = ParseCredential(C7_Header[1])
               /\ credential # None => credential[1].access_key = StrV("AK-header")
        /\ C7_Header = None /\ C7_Env # None =>
               /\ [exc |-> cred_exc, credential |-> credential] = ParseCredential(C7_Env[1])
               /\ credential # None => credential[1].access_key = StrV("AK-env")
        /\ C7_Header = None /\ C7_Env = None =>
               cred_exc = "Missing authorization info." /\ credential = None
        /\ cred_exc = "Missing authorization info." => C7_Header = None /\ C7_Env = None

\* A request without the header resolved the environment's credential.
C7_Witness ==
    /\ tool_pc = "resolved"
    /\ raw_request = Some([headers |-> <<>>])
    /\ credential # None
    /\ credential[1].access_key = StrV("AK-env")

\* The authorization value the resolver is to decode.
C8_Auth == IF C7_Header # None THEN C7_Header ELSE C7_Env

\* The field is in the object and is neither null nor empty.
C8_Present(obj, k) == k \in DOMAIN obj /\ ~IsNull(obj[k]) /\ obj[k] \notin {StrV(""), IntV(0)}

\* C8: the resolver returns a Credential only when the payload decodes to a
\* JSON object in which AccessKeyId, SecretAccessKey and SessionToken are all
\* present and non-empty, and then with these values; in every other case
\* (bad base64, bad JSON, a field missing or empty) it raises and returns
\* nothing.
C8_CredentialValidated ==
    (tool_pc = "resolved" /\ C8_Auth # None) =>
        LET d == C8_Auth[1].data
            valid == /\ d.b64
                     /\ d.utf8
                     /\ d.json = "object"
                     /\ C8_Present(d.obj, "AccessKeyId")
                     /\ C8_Present(d.obj, "SecretAccessKey")
                     /\ C8_Present(d.obj, "SessionToken")
        IN  /\ credential # None <=> valid
            /\ credential = None <=> cred_exc # ""
            /\ valid =>
                   /\ credential[1].access_key = d.obj["AccessKeyId"]
                   /\ credential[1].secret_key = d.obj["SecretAccessKey"]
                   /\ credential[1].security_token = d.obj["SessionToken"]

\* A payload whose SessionToken alone is empty was refused.
C8_Witness ==
    /\ tool_pc = "resolved"
    /\ C8_Auth # None
    /\ C8_Auth[1].data.json = "object"
    /\ C8_Present(C8_Auth[1].data.obj, "AccessKeyId")
    /\ C8_Present(C8_Auth[1].data.obj, "SecretAccessKey")
    /\ "SessionToken" \in DOMAIN C8_Auth[1].data.obj
    /\ C8_Auth[1].data.obj["SessionToken"] = StrV("")
    /\ credential = None
    /\ cred_exc = "Invalid credentials ak, sk, session_token is null"

\* ------------------------------------------------- C11: URL-safe base64
\* The 6-bit value of a base64 character, -1 for a character outside the
\* alphabet.
C11_B64Value(c, urlsafe) ==
    IF c >= 65 /\ c <= 90 THEN c - 65
    ELSE IF c >= 97 /\ c <= 122 THEN c - 71
    ELSE IF c >= 48 /\ c <= 57 THEN c + 4
    ELSE IF c = (IF urlsafe THEN 45 ELSE 43) THEN 62
    ELSE IF c = (IF urlsafe THEN 95 ELSE 47) THEN 63
    ELSE -1

\* Decoding of padded base64 text: [ok |-> TRUE, bytes |-> the bytes], or
\* ok = FALSE for text that is not padded base64 of the alphabet.
RECURSIVE C11_B64Decode(_, _)
C11_B64Decode(s, urlsafe) ==
    IF s = <<>> THEN [ok |-> TRUE, bytes |-> <<>>]
    ELSE IF Len(s) < 4 THEN [ok |-> FALSE, bytes |-> <<>>]
    ELSE LET v1 == C11_B64Value(s[1], urlsafe)
             v2 == C11_B64Value(s[2], urlsafe)
             v3 == C11_B64Value(s[3], urlsafe)
             v4 == C11_B64Value(s[4], urlsafe)
             b1 == v1 * 4 + (v2 \div 16)
             b2 == (v2 % 16) * 16 + (v3 \div 4)
             b3 == (v3 % 4) * 64 + v4
         IN  IF v1 < 0 \/ v2 < 0 THEN [ok |-> FALSE, bytes |-> <<>>]
             ELSE IF Len(s) = 4 /\ s[3] = 61 /\ s[4] = 61
                  THEN [ok |-> v2 % 16 = 0, bytes |-> <<b1>>]
             ELSE IF v3 < 0 THEN [ok |-> FALSE, bytes |-> <<>>]
             ELSE IF Len(s) = 4 /\ s[4] = 61
                  THEN [ok |-> v3 % 4 = 0, bytes |-> <<b1, b2>>]
             ELSE IF v4 < 0 THEN [ok |-> FALSE, bytes |-> <<>>]
             ELSE LET rest == C11_B64Decode(SubSeq(s, 5, Len(s)), urlsafe)
                  IN  [ok |-> rest.ok,
                       bytes |-> IF rest.ok THEN <<b1, b2, b3>> \o rest.bytes ELSE <<>>]

\* The text with the '=' put back that make its length a multiple of 4.
C11_Repad(s) == s \o [i \in 1..((4 - (Len(s) % 4)) % 4) |-> 61]

\* "logo.png?x-tos-process=image/resize,p_10"
C11_LogoResized == CpLogo \o XTosProcessInfix \o CpResize

\* What Python gives for
\* base64.urlsafe_b64encode(s.encode('utf-8')).decode('ascii').rstrip('=').
C11_Known(s) ==
    CASE s = <<>> -> ""
      [] s = CpConf -> "Q29uZg"
      [] s = <<233>> -> "w6k"
      [] s = CpArrows -> "Pj4-"
      [] s = CpMarks -> "Pz4_"
      [] s = CpLogo -> "bG9nby5wbmc"
      [] s = C11_LogoResized -> "bG9nby5wbmc_eC10b3MtcHJvY2Vzcz1pbWFnZS9yZXNpemUscF8xMA"
      [] s = CpFont -> "d3F5LXplbmhlaQ"
      [] OTHER -> "(unknown)"

\* The string s is emitted as the URL-safe base64 text of its UTF-8 bytes
\* without trailing '=': the text has none of + / = , and decodes back to s.
C11_Encoded(s) ==
    LET enc == RStripEq(urlsafe_b64encode(Utf8Encode(s)))
        dec == C11_B64Decode(C11_Repad(enc), TRUE)
    IN  /\ url_safe_b64encode(s) = C11_Known(s)
        /\ AsciiStr(enc) = C11_Known(s)
        /\ \A i \in 1..Len(enc) : enc[i] \notin {43, 47, 61, 44}
        /\ dec.ok
        /\ Utf8Decode(dec.bytes) = [ok |-> TRUE, text |-> s]

\* The string the image element of a watermark entry encodes.
C11_ImageValue(config) ==
    IF "image_process" \in DOMAIN config /\ Truthy(config["image_process"])
    THEN config["image"].cp \o XTosProcessInfix \o config["image_process"].cp
    ELSE config["image"].cp

\* The image, text and type elements of a watermark entry.
C11_Leading(config) ==
    (IF "image" \in DOMAIN config /\ Truthy(config["image"])
     THEN <<"image_" \o C11_Known(C11_ImageValue(config))>> ELSE <<>>)
    \o (IF "text" \in DOMAIN config /\ Truthy(config["text"])
        THEN <<"text_" \o C11_Known(config["text"].cp)>> ELSE <<>>)
    \o (IF "font_type" \in DOMAIN config /\ Truthy(config["font_type"])
        THEN <<"type_" \o C11_Known(config["font_type"].cp)>> ELSE <<>>)

\* The strings a watermark entry has encoded.
C11_Texts(config) ==
    (IF "image" \in DOMAIN config /\ Truthy(config["image"])
     THEN {C11_ImageValue(config)} ELSE {})
    \cup {config[k].cp : k \in {j \in {"text", "font_type"} \cap DOMAIN config :
                                    Truthy(config[j])}}

\* The actions of the entries that emit one, with the elements above first.
C11_Actions(watermarks) ==
    LET kept == SelectSeq(watermarks, C10_EmitsAction)
    IN  [i \in 1..Len(kept) |->
            "watermark," \o Join(",", C11_Leading(kept[i])
                                      \o watermark_general_params(kept[i], param_map))]

\* C11: the watermark image value, text and font_type and the blind-watermark
\* text are each emitted as the URL-safe base64 text of the string's UTF-8
\* bytes with all trailing '=' removed: the emitted element holds none of
\* '+', '/', '=' and ',', and re-padding and decoding it gives the string back.
C11_UrlSafeElements ==
    /\ (op = "image_blind_watermark" /\ Len(requests) = 1) =>
           /\ C11_Encoded(args.text)
           /\ requests[1].params["x-tos-process"] =
                  "image/blindwatermark,text_" \o C11_Known(args.text)
                      \o C9_Elem("version", args.version, ToString(args.version[1]))
                      \o C9_Elem("level", args.level, ToString(args.level[1]))
    /\ (op = "image_watermark" /\ Len(requests) = 1) =>
           /\ \A i \in 1..Len(args.watermarks) :
                  \A s \in C11_Texts(args.watermarks[i]) : C11_Encoded(s)
           /\ requests[1].params["x-tos-process"] =
                  "image/" \o Join("/", C11_Actions(args.watermarks))

\* image_watermark sent an action whose image is "é", whose text encodes to a
\* text with '_' and whose font encodes to a text with '-'.
C11_Witness ==
    /\ op = "image_watermark"
    /\ Done
    /\ Len(args.watermarks) = 1
    /\ C11_Texts(args.watermarks[1]) = {<<233>>, CpMarks, CpArrows}
    /\ requests[1].params["x-tos-process"] = "image/watermark,image_w6k,text_Pz4_,type_Pj4-"

\* ------------------------------------------------------ C12: image_resize
\* One ",<k>_<v>" element of a str parameter, or nothing when it is None or "".
C12_StrElem(k, o) == IF o = None THEN "" ELSE IF o[1] = "" THEN "" ELSE "," \o k \o "_" \o o[1]

\* C12: in image_resize, whenever p is supplied (0 included) the directive is
\* exactly 'image/resize,p_<p>' and mode, width, height, long, short, limit and
\* color are ignored; otherwise it is 'image/resize' followed by the supplied
\* parameters in the order m, w, h, l, s, limit, color, where an empty-string
\* mode or color is omitted and a numeric 0 is kept.
C12_ResizeDirective ==
    (op = "image_resize" /\ Len(requests) = 1) =>
        LET a == args
            d == requests[1].params["x-tos-process"]
        IN  /\ a.p # None => d = "image/resize,p_" \o ToString(a.p[1])
            /\ a.p = None =>
                   d = "image/resize"
                       \o C12_StrElem("m", a.mode)
                       \o C9_Elem("w", a.width, ToString(a.width[1]))
                       \o C9_Elem("h", a.height, ToString(a.height[1]))
                       \o C9_Elem("l", a.long, ToString(a.long[1]))
                       \o C9_Elem("s", a.short, ToString(a.short[1]))
                       \o C9_Elem("limit", a.limit, ToString(a.limit[1]))
                       \o C12_StrElem("color", a.color)
            /\ a.p = Some(0) => d = "image/resize,p_0"
            /\ <<a.p, a.mode, a.width, a.height, a.long, a.short, a.limit, a.color>>
                   = <<None, Some(""), Some(0), None, Some(0), None, None, Some("")>>
                   => d = "image/resize,w_0,l_0"
            /\ <<a.p, a.mode, a.width, a.height, a.long, a.short, a.limit, a.color>>
                   = <<None, Some("lfit"), Some(100), Some(100), Some(0), Some(7), Some(1),
                       Some("FF0000")>>
                   => d = "image/resize,m_lfit,w_100,h_100,l_0,s_7,limit_1,color_FF0000"

\* image_resize was given p = 0 together with every other parameter and sent
\* the percentage alone.
C12_Witness ==
    /\ op = "image_resize"
    /\ Done
    /\ <<args.p, args.mode, args.width, args.height, args.long, args.short, args.limit,
         args.color>>
           = <<Some(0), Some("lfit"), Some(100), Some(100), Some(0), Some(7), Some(1),
               Some("FF0000")>>
    /\ requests[1].params["x-tos-process"] = "image/resize,p_0"

\* --------------------------------- C13: order inside a watermark action
\* The element of a general parameter, or nothing when the entry lacks it.
C13_Gen(config, k, name) ==
    IF k \in DOMAIN config THEN <<name \o "_" \o Format(config[k])>> ELSE <<>>

\* The element of image, text or font_type, or nothing when it is not truthy.
C13_Text(config, k, name, s) ==
    IF k \in DOMAIN config /\ Truthy(config[k])
    THEN <<name \o "_" \o url_safe_b64encode(s)>> ELSE <<>>

\* What the image element encodes: '<image>?x-tos-process=<image_process>'
\* with an image_process, '<image>' without.
C13_ImageValue(config) ==
    IF "image" \notin DOMAIN config THEN <<>>
    ELSE IF "image_process" \in DOMAIN config /\ Truthy(config["image_process"])
    THEN config["image"].cp \o XTosProcessInfix \o config["image_process"].cp
    ELSE config["image"].cp

\* The elements of one entry in the order claimed.
C13_Params(config) ==
    C13_Text(config, "image", "image", C13_ImageValue(config))
    \o C13_Text(config, "text", "text", IF "text" \in DOMAIN config THEN config["text"].cp ELSE <<>>)
    \o C13_Text(config, "font_type", "type",
                IF "font_type" \in DOMAIN config THEN config["font_type"].cp ELSE <<>>)
    \o C13_Gen(config, "transparency", "t")
    \o C13_Gen(config, "gravity", "g")
    \o C13_Gen(config, "x", "x")
    \o C13_Gen(config, "y", "y")
    \o C13_Gen(config, "voffset", "voffset")
    \o C13_Gen(config, "rotate", "rotate")
    \o C13_Gen(config, "fill", "fill")
    \o C13_Gen(config, "color", "color")
    \o C13_Gen(config, "size", "size")
    \o C13_Gen(config, "shadow", "shadow")
    \o C13_Gen(config, "p", "P")
    \o C13_Gen(config, "order", "order")
    \o C13_Gen(config, "align", "align")
    \o C13_Gen(config, "interval", "interval")

\* An entry that yields some element.
C13_HasParams(config) == C13_Params(config) # <<>>

\* C13: inside each watermark action the elements image, text and type come
\* first, in that order, then the general parameters in the order t, g, x, y,
\* voffset, rotate, fill, color, size, shadow, P, order, align, interval,
\* whatever the order of the keys in the entry; the image element encodes
\* '<image>?x-tos-process=<image_process>' with an image_process and '<image>'
\* without, and image_process is ignored in an entry without image.
C13_ActionOrder ==
    (op = "image_watermark" /\ Len(requests) = 1) =>
        LET d == requests[1].params["x-tos-process"]
            kept == SelectSeq(args.watermarks, C13_HasParams)
        IN  /\ d = "image/" \o Join("/", [i \in 1..Len(kept) |->
                                             "watermark," \o Join(",", C13_Params(kept[i]))])
            /\ args.watermarks = << ("shadow" :> IntV(50)) @@ ("image_process" :> CpV(CpResize))
                                      @@ ("text" :> CpV(CpConf)) >>
                   => d = "image/watermark,text_Q29uZg,shadow_50"
            /\ args.watermarks = << ("image_process" :> CpV(<<>>)) @@ ("image" :> CpV(CpLogo)) >>
                   => d = "image/watermark,image_bG9nby5wbmc"
            /\ args.watermarks = << ExampleWatermarks[1] >>
                   => d = "image/watermark,image_bG9nby5wbmc_eC10b3MtcHJvY2Vzcz1pbWFnZS9yZXNpemUscF8xMA,g_nw"
            /\ args.watermarks = << ("font_type" :> CpV(CpFont)) @@ ("interval" :> IntV(5))
                                      @@ ("transparency" :> IntV(50)) @@ ("p" :> IntV(30)) >>
                   => d = "image/watermark,type_d3F5LXplbmhlaQ,t_50,P_30,interval_5"

\* image_watermark sent the action of an entry whose keys were given in the
\* order order, font_type, text, image, align.
C13_Witness ==
    /\ op = "image_watermark"
    /\ Done
    /\ args.watermarks = << ("order" :> IntV(1)) @@ ("font_type" :> CpV(CpFont))
                              @@ ("text" :> CpV(CpConf)) @@ ("image" :> CpV(CpLogo))
                              @@ ("align" :> IntV(2)) >>
    /\ requests[1].params["x-tos-process"] =
           "image/watermark,image_bG9nby5wbmc,text_Q29uZg,type_d3F5LXplbmhlaQ,order_1,align_2"

\* --------------------------------------------- C14: image_blind_watermark
\* C14: the blind-watermark directive is 'image/blindwatermark,text_<encoded
\* text>', then ',version_<v>' when version is supplied, then ',level_<l>' when
\* level is supplied; the text element is always there and first, also for an
\* empty text.
C14_BlindDirective ==
    (op = "image_blind_watermark" /\ Len(requests) = 1) =>
        LET a == args
            d == requests[1].params["x-tos-process"]
        IN  /\ d = "image/blindwatermark"
                   \o ",text_" \o AsciiStr(RStripEq(urlsafe_b64encode(Utf8Encode(a.text))))
                   \o C9_Elem("version", a.version, ToString(a.version[1]))
                   \o C9_Elem("level", a.level, ToString(a.level[1]))
            /\ <<a.text, a.version, a.level>> = << <<>>, None, None >>
                   => d = "image/blindwatermark,text_"
            /\ <<a.text, a.version, a.level>> = << <<>>, None, Some(9) >>
                   => d = "image/blindwatermark,text_,level_9"
            /\ <<a.text, a.version, a.level>> = << CpConf, Some(1), Some(2) >>
                   => d = "image/blindwatermark,text_Q29uZg,version_1,level_2"
            /\ <<a.text, a.version, a.level>> = << <<233>>, Some(3), None >>
                   => d = "image/blindwatermark,text_w6k,version_3"

\* image_blind_watermark was given an empty text and a version and sent the
\* empty text element first.
C14_Witness ==
    /\ op = "image_blind_watermark"
    /\ Done
    /\ args.text = <<>>
    /\ args.version = Some(1)
    /\ args.level = None
    /\ requests[1].params["x-tos-process"] = "image/blindwatermark,text_,version_1"

\* ------------------------------------------------- C15: the save-as pair
\* The query parameter name is sent exactly for a non-empty argument o, and
\* then as the padded standard base64 text of o's UTF-8 bytes, which decodes
\* back to o.
C15_SaveParam(params, name, o) ==
    LET sent == name \in DOMAIN params
        enc == b64encode(Utf8Encode(o[1]))
        dec == C11_B64Decode(enc, FALSE)
    IN  /\ sent <=> (o # None /\ o # Some(<<>>))
        /\ sent => /\ params[name] = AsciiStr(enc)
                   /\ Len(enc) % 4 = 0
                   /\ dec.ok
                   /\ Utf8Decode(dec.bytes) = [ok |-> TRUE, text |-> o[1]]

\* C15: in every processing operation x-tos-save-object and x-tos-save-bucket,
\* when sent, are the standard padded base64 of the UTF-8 bytes of saveas_object
\* and saveas_bucket, so that decoding gives the argument back; each is sent
\* only for a non-empty argument, and x-tos-process is what it is without them.
C15_SaveAsEncoding ==
    (op \in SaveAsOps /\ Len(requests) = 1) =>
        LET params == requests[1].params
            bare == [args EXCEPT !.saveas_object = None, !.saveas_bucket = None]
        IN  /\ C15_SaveParam(params, "x-tos-save-object", args.saveas_object)
            /\ C15_SaveParam(params, "x-tos-save-bucket", args.saveas_bucket)
            /\ DOMAIN params \subseteq
                   {"x-tos-process", "x-tos-save-object", "x-tos-save-bucket"}
            /\ params["x-tos-process"] = BuildQuery(op, bare)["x-tos-process"]
            /\ args.saveas_object = Some(<<62, 62, 62, 233>>)
                   => params["x-tos-save-object"] = "Pj4+w6k="
            /\ args.saveas_bucket = Some(<<63, 62, 63>>)
                   => params["x-tos-save-bucket"] = "Pz4/"

\* video_snapshot was given ">>>é" and "?>?" and sent both parameters.
C15_Witness ==
    /\ op = "video_snapshot"
    /\ Done
    /\ args.saveas_object = Some(<<62, 62, 62, 233>>)
    /\ args.saveas_bucket = Some(<<63, 62, 63>>)
    /\ requests[1].params["x-tos-save-object"] = "Pj4+w6k="
    /\ requests[1].params["x-tos-save-bucket"] = "Pz4/"
    /\ requests[1].params["x-tos-process"] = "video/snapshot,t_0,m_fast"

\* ------------------------------------------- C16: save-bucket needs object
\* C16: a request carries x-tos-save-bucket only if it also carries
\* x-tos-save-object, whatever the arguments.
C16_BucketOnlyWithObject ==
    \A i \in 1..Len(requests) :
        "x-tos-save-bucket" \in DOMAIN requests[i].params
            => "x-tos-save-object" \in DOMAIN requests[i].params

\* ------------------------------------------- C17: the one size check
\* C17: the size check is made once, before streaming: a content-length
\* strictly greater than max_object_size raises 'too large' without any chunk
\* having been read, a content-length equal to the limit passes, a missing
\* header counts as 0 and passes, and once the check has passed nothing checks
\* the size while the chunks are read, so the whole body is accumulated.
C17_SizeCheckedOnce ==
    (response # None /\ (response[1].status_code = 200 \/ response[1].status_code = 206)) =>
        LET r == response[1]
            declared == IF r.content_length = None THEN 0 ELSE r.content_length[1]
        IN  /\ pc \in {"stream", "finally", "done"} =>
                   (exc = "too_large" <=> declared > max_object_size)
            /\ exc = "too_large" => pos = 0 /\ content = <<>> /\ result = None
            /\ pc = "stream" => declared <= max_object_size /\ content = SubSeq(r.body, 1, pos)
            /\ Done /\ declared <= max_object_size =>
                   /\ exc \in {"", "stream_error", "decode_error"}
                   /\ exc # "stream_error" => content = r.body

\* An operation returned a body longer than max_object_size that was declared
\* with a content-length equal to the limit.
C17_Witness ==
    /\ Returned
    /\ response[1].content_length = Some(max_object_size)
    /\ Len(response[1].body) > max_object_size
    /\ content = response[1].body

\* ---------------------------------------------- C18: an error status
\* C18: a response whose status is neither 200 nor 206 makes the operation
\* raise an error carrying the server's reply, without any chunk having been
\* read through the chunk iterator and without content being returned; 206 is
\* handled as 200 is.
C18_ErrorStatusRaisesReply ==
    (Done /\ response # None) =>
        IF response[1].status_code \in {200, 206}
        THEN exc \notin {"bad_status", "json_error"}
        ELSE exc = "bad_status" /\ pos = 0 /\ content = <<>> /\ result = None

\* ------------------------------------- C20: the times of the payload
\* The payload with its two time fields removed.
C20_WithoutTimes(obj) == [k \in DOMAIN obj \ {"CurrentTime", "ExpiredTime"} |-> obj[k]]

\* C20: the resolver accepts or refuses a payload whatever its CurrentTime and
\* ExpiredTime are: a payload with non-empty AccessKeyId, SecretAccessKey and
\* SessionToken is accepted also when ExpiredTime is missing or earlier than
\* CurrentTime, and ExpiredTime reaches the Credential unchanged.
C20_TimesNotChecked ==
    (tool_pc = "resolved" /\ C8_Auth # None /\ C8_Auth[1].data.json = "object") =>
        LET obj == C8_Auth[1].data.obj
            keys == C20_WithoutTimes(obj)
            complete == /\ C8_Present(keys, "AccessKeyId")
                        /\ C8_Present(keys, "SecretAccessKey")
                        /\ C8_Present(keys, "SessionToken")
        IN  /\ credential # None <=> complete
            /\ credential # None =>
                   credential[1].expired_time =
                       IF "ExpiredTime" \in DOMAIN obj THEN <<obj["ExpiredTime"]>> ELSE <<>>

\* A payload whose ExpiredTime, 2020, is earlier than its CurrentTime, 2026,
\* was accepted, and the Credential holds that ExpiredTime.
C20_Witness ==
    /\ tool_pc = "resolved"
    /\ C8_Auth # None
    /\ C8_Auth[1].data.json = "object"
    /\ {"CurrentTime", "ExpiredTime"} \subseteq DOMAIN C8_Auth[1].data.obj
    /\ C8_Auth[1].data.obj["CurrentTime"] = StrV("2026-01-01T00:00:00Z")
    /\ C8_Auth[1].data.obj["ExpiredTime"] = StrV("2020-01-01T00:00:00Z")
    /\ credential # None
    /\ credential[1].expired_time = <<StrV("2020-01-01T00:00:00Z")>>

\* ------------------------------------------ C19: one config per invocation
\* The three keys of invocation i's own header.
C19_OwnKeys(i) ==
    <<StrV("AK-" \o ToString(i)), StrV("SK-" \o ToString(i)), StrV("ST-" \o ToString(i))>>

\* C19: in a deploy mode other than local every tool invocation builds a
\* TosConfig of its own from the credential resolved from its own request,
\* with region, endpoint, deploy_mode and max_object_size copied from the
\* global TOS_CONFIG and an empty bucket list, and the global TOS_CONFIG is
\* never modified, so that under any interleaving no invocation uses the keys
\* of another request; in local deploy mode the global TOS_CONFIG is returned
\* and the request's authorization is never read.
C19_OwnConfigPerInvocation ==
    /\ TOS_CONFIG = GlobalConfig(TOS_CONFIG.deploy_mode)
    /\ \A i \in Invocations :
           LET v == invocations[i]
               own == get_credential_from_request(v.request, environ)
               global == GlobalConfig(RemoteDeployMode)
           IN  IF TOS_CONFIG.deploy_mode = LOCAL_DEPLOY_MODE
               THEN /\ ~v.auth_read
                    /\ v.config # None => v.config[1] = [global |-> TRUE]
                    /\ v.keys # None =>
                           v.keys[1] = <<StrV("AK-global"), StrV("SK-global"),
                                         StrV("ST-global")>>
               ELSE /\ v.pc \notin {"idle", "config"} => v.auth_read
                    /\ v.config # None =>
                           /\ own.credential # None
                           /\ v.config[1] =
                                  [own |->
                                      [access_key |-> own.credential[1].access_key,
                                       secret_key |-> own.credential[1].secret_key,
                                       security_token |-> own.credential[1].security_token,
                                       region |-> global.region,
                                       endpoint |-> global.endpoint,
                                       deploy_mode |-> RemoteDeployMode,
                                       max_object_size |-> global.max_object_size,
                                       buckets |-> <<>>]]
                    /\ v.resource # None =>
                           v.resource[1].max_object_size = global.max_object_size
                    /\ v.keys # None =>
                           /\ v.keys[1] = <<own.credential[1].access_key,
                                            own.credential[1].secret_key,
                                            own.credential[1].security_token>>
                           /\ v.request = Some([headers |->
                                                   ("authorization" :> InvocationAuth(i))])
                                  => v.keys[1] = C19_OwnKeys(i)
                           /\ \A j \in Invocations \ {i} :
                                  \A n \in 1..3 : v.keys[1][n] # C19_OwnKeys(j)[n]

\* Outside local mode, invocation 2 has finished with the keys of its request
\* while invocation 1, which holds a config with its own keys, has not yet
\* made its request.
C19_Witness ==
    /\ TOS_CONFIG.deploy_mode = RemoteDeployMode
    /\ invocations[1].pc = "await"
    /\ invocations[1].config # None
    /\ invocations[1].config[1].own.access_key = StrV("AK-1")
    /\ invocations[2].pc = "done"
    /\ invocations[2].keys = Some(C19_OwnKeys(2))

\* --------------------------------------- C21: a directive with no action
\* The directive was built, as 'image/', once the method has been entered, and
\* the one request was issued with it.
C21_SentBareDirective ==
    /\ pc # "idle" => query["x-tos-process"] = "image/"
    /\ pc \notin {"idle", "request"} =>
           /\ Len(requests) = 1
           /\ requests[1].params["x-tos-process"] = "image/"

\* C21 as stated: image_watermark called with an empty watermarks list, or
\* with only entries that have no recognised non-empty parameter, raises no
\* error while building the directive and still issues the request, with
\* x-tos-process equal to exactly 'image/'.
C21_BareDirectiveWithoutNonEmpty ==
    (op = "image_watermark"
       /\ \A i \in 1..Len(args.watermarks) : ~C10_HasRecognisedNonEmpty(args.watermarks[i]))
        => C21_SentBareDirective

\* C21 as amended: image_watermark called with an empty watermarks list, or
\* with only entries that have no truthy image, text or font_type and no
\* general parameter other than None, raises no error while building the
\* directive and still issues the request, with x-tos-process equal to exactly
\* 'image/'.
C21_BareDirectiveWithoutAction ==
    (op = "image_watermark"
       /\ \A i \in 1..Len(args.watermarks) : ~C10_EmitsAction(args.watermarks[i]))
        => C21_SentBareDirective

\* image_watermark was called with an entry of empty image and text and an
\* entry of image_process alone, and its request carried 'image/'.
C21_Witness ==
    /\ op = "image_watermark"
    /\ Done
    /\ args.watermarks = << ("image" :> CpV(<<>>)) @@ ("text" :> CpV(<<>>)),
                            ("image_process" :> CpV(CpResize)) >>
    /\ Len(requests) = 1
    /\ requests[1].params["x-tos-process"] = "image/"

====
